---------------------------- MODULE Spec2Model ----------------------------
(***************************************************************************)
(* Governance-health scoring pipeline of the Tally MCP server:             *)
(* HealthScorer, RiskDetector and the GovernanceAnalyzer that calls them,  *)
(* and the tool-call handler of GovernanceHealthMCPServer with the         *)
(* TallyClient lookups it makes.                                           *)
(*                                                                         *)
(* JavaScript numbers are IEEE-754 binary64.  The scorers multiply by      *)
(* 0.4, 0.3, 0.7, 0.25, 0.2, 0.15, none of which is a binary fraction, so  *)
(* the value handed to Math.round can sit one ulp under an exact half.     *)
(* The arithmetic is therefore modelled bit-exactly: a number is a sign    *)
(* and a magnitude counted in units of 2^-75, every operation computes the *)
(* exact result and rounds it to 53 significant bits, ties to even.        *)
(* Magnitudes are little-endian sequences of 15-bit limbs.                 *)
(***************************************************************************)
EXTENDS Integers, Sequences, FiniteSets, TLC

VARIABLES
    metrics,          \* DAOMetrics handed to the pipeline
    categoryScores,   \* analyzeDAO: const categoryScores
    overallScore,     \* analyzeDAO: const overallScore
    risks,            \* analyzeDAO: const risks
    recommendations,  \* analyzeDAO: const recommendations
    riskLevel,        \* value returned by getRiskLevel
    signal,           \* value returned by getInvestmentSignal
    report,           \* the parts of the text getDetailedReport returns
    request,          \* server: name and arguments of the last tool call
    lookups,          \* server: how each DAO lookup of that call ended
    response,         \* server: what the tool-call handler handed back
    serverCache,      \* server: this.cache, health kept by dao_identifier
    analyzerCache,    \* analyzer: this.cache, health kept by cacheKey
    calls,            \* analyzer: the analyzeDAO calls in progress or settled
    compareCall,      \* analyzer: the compareDAOs call in progress or settled
    healthOf,         \* analyzer: the health the pipeline gives each provider record
    history,          \* results returned by the calls made so far
    edits,            \* number of metric fields the caller changed
    pc                \* "input": arguments ready, "done": call returned

vars == <<metrics, categoryScores, overallScore, risks, recommendations,
          riskLevel, signal, report, request, lookups, response, serverCache,
          analyzerCache, calls, compareCall, healthOf, history, edits, pc>>

pipelineVars == <<metrics, categoryScores, overallScore, risks, recommendations,
                  riskLevel, signal, report, history, edits, pc>>

analyzerVars == <<analyzerCache, calls, compareCall, healthOf>>

serverVars == <<request, lookups, response, serverCache>>

-----------------------------------------------------------------------------
(* Natural numbers of arbitrary size: limbs in base 2^15, lowest first,    *)
(* no leading zero limb; <<>> is zero.                                     *)

Repr == [limbBits |-> 15,           \* bits per limb
         fracLimbs |-> 5,           \* 75 fraction bits
         mantBits |-> 53,           \* binary64 significand width
         scale |-> 1000]            \* decimal literals carry three fraction digits
LimbBits == Repr.limbBits
Base == 2 ^ LimbBits
FracLimbs == Repr.fracLimbs
MantBits == Repr.mantBits

Limb(a, i) == IF i <= Len(a) THEN a[i] ELSE 0

RECURSIVE Norm(_)
Norm(a) ==
    IF a = <<>> THEN <<>>
    ELSE IF a[Len(a)] = 0 THEN Norm(SubSeq(a, 1, Len(a) - 1))
    ELSE a

RECURSIVE BigFromInt(_)
BigFromInt(k) ==
    IF k = 0 THEN <<>> ELSE <<k % Base>> \o BigFromInt(k \div Base)

RECURSIVE BigToInt(_)
BigToInt(a) ==
    IF a = <<>> THEN 0 ELSE a[1] + Base * BigToInt(Tail(a))

RECURSIVE AddFrom(_, _, _, _)
AddFrom(a, b, i, c) ==
    IF i > Len(a) /\ i > Len(b)
    THEN (IF c = 0 THEN <<>> ELSE <<c>>)
    ELSE LET s == Limb(a, i) + Limb(b, i) + c
         IN  <<s % Base>> \o AddFrom(a, b, i + 1, s \div Base)

BigAdd(a, b) == AddFrom(a, b, 1, 0)

RECURSIVE SubFrom(_, _, _, _)
SubFrom(a, b, i, c) ==
    IF i > Len(a) THEN <<>>
    ELSE LET s == a[i] - Limb(b, i) - c
         IN  IF s < 0 THEN <<s + Base>> \o SubFrom(a, b, i + 1, 1)
             ELSE <<s>> \o SubFrom(a, b, i + 1, 0)

\* a - b for a >= b
BigSub(a, b) == Norm(SubFrom(a, b, 1, 0))

RECURSIVE LessFrom(_, _, _)
LessFrom(a, b, i) ==
    IF i = 0 THEN FALSE
    ELSE IF a[i] # b[i] THEN a[i] < b[i]
    ELSE LessFrom(a, b, i - 1)

BigLess(a, b) ==
    IF Len(a) # Len(b) THEN Len(a) < Len(b) ELSE LessFrom(a, b, Len(a))

RECURSIVE MulSmallFrom(_, _, _, _)
MulSmallFrom(a, d, i, c) ==
    IF i > Len(a) THEN (IF c = 0 THEN <<>> ELSE <<c>>)
    ELSE LET s == a[i] * d + c
         IN  <<s % Base>> \o MulSmallFrom(a, d, i + 1, s \div Base)

MulSmall(a, d) == IF d = 0 THEN <<>> ELSE MulSmallFrom(a, d, 1, 0)

ShiftLimbs(a, n) ==
    IF a = <<>> THEN <<>> ELSE [i \in 1..n |-> 0] \o a

RECURSIVE BigMul(_, _)
BigMul(a, b) ==
    IF b = <<>> \/ a = <<>> THEN <<>>
    ELSE BigAdd(MulSmall(a, b[1]), ShiftLimbs(BigMul(a, Tail(b)), 1))

\* quotient and remainder of a by a divisor below 2^15, highest limb first
RECURSIVE DivSmallFrom(_, _, _, _)
DivSmallFrom(a, d, i, r) ==
    IF i = 0 THEN [q |-> <<>>, r |-> r]
    ELSE LET cur  == r * Base + a[i]
             rest == DivSmallFrom(a, d, i - 1, cur % d)
         IN  [q |-> rest.q \o <<cur \div d>>, r |-> rest.r]

DivSmall(a, d) ==
    LET res == DivSmallFrom(a, d, Len(a), 0)
    IN  [q |-> Norm(res.q), r |-> res.r]

SmallBitLen(x) == CHOOSE k \in 0..LimbBits : x < 2 ^ k /\ (k = 0 \/ 2 ^ (k - 1) <= x)

BitLen(a) ==
    IF a = <<>> THEN 0 ELSE LimbBits * (Len(a) - 1) + SmallBitLen(a[Len(a)])

\* floor(a / 2^s)
Shr(a, s) ==
    LET n == s \div LimbBits
        b == s % LimbBits
        h == IF n >= Len(a) THEN <<>> ELSE SubSeq(a, n + 1, Len(a))
    IN  Norm([i \in 1..Len(h) |->
                (h[i] \div 2 ^ b) + (Limb(h, i + 1) % 2 ^ b) * 2 ^ (LimbBits - b)])

\* a * 2^s
Shl(a, s) == ShiftLimbs(MulSmall(a, 2 ^ (s % LimbBits)), s \div LimbBits)

\* bit k of a (bit 0 is the lowest)
Bit(a, k) == (Limb(a, (k \div LimbBits) + 1) \div 2 ^ (k % LimbBits)) % 2

\* are all bits of a below bit k zero
LowZero(a, k) ==
    /\ \A i \in 1..(k \div LimbBits) : Limb(a, i) = 0
    /\ Limb(a, (k \div LimbBits) + 1) % 2 ^ (k % LimbBits) = 0

\* n (followed by nonzero discarded bits when sticky) rounded to 53
\* significant bits, round to nearest, ties to even
Round53(n, sticky) ==
    LET len == BitLen(n)
    IN  IF len <= MantBits THEN n
        ELSE LET s    == len - MantBits
                 q    == Shr(n, s)
                 half == Bit(n, s - 1) = 1
                 more == sticky \/ ~LowZero(n, s - 1)
                 odd  == Bit(q, 0) = 1
                 up   == half /\ (more \/ odd)
             IN  Shl(IF up THEN BigAdd(q, <<1>>) ELSE q, s)

DropFrac(n) == IF Len(n) <= FracLimbs THEN <<>> ELSE SubSeq(n, FracLimbs + 1, Len(n))

-----------------------------------------------------------------------------
(* binary64 values and the operations the analyzers apply to them          *)

Dbl(neg, mag) == [neg |-> neg /\ mag # <<>>, mag |-> mag]

DFromInt(k) == Dbl(k < 0, ShiftLimbs(BigFromInt(IF k < 0 THEN -k ELSE k), FracLimbs))

DMul(x, y) ==
    Dbl(x.neg # y.neg, DropFrac(Round53(BigMul(x.mag, y.mag), FALSE)))

DAdd(x, y) ==
    IF x.neg = y.neg THEN Dbl(x.neg, Round53(BigAdd(x.mag, y.mag), FALSE))
    ELSE IF BigLess(x.mag, y.mag)
         THEN Dbl(y.neg, Round53(BigSub(y.mag, x.mag), FALSE))
         ELSE Dbl(x.neg, Round53(BigSub(x.mag, y.mag), FALSE))

DNeg(x) == Dbl(~x.neg, x.mag)

DSub(x, y) == DAdd(x, DNeg(y))

\* x / d for an integer 0 < d < 2^15
DDivInt(x, d) ==
    LET res == DivSmall(ShiftLimbs(x.mag, FracLimbs), d)
    IN  Dbl(x.neg, DropFrac(Round53(res.q, res.r # 0)))

DLess(x, y) ==
    IF x.neg # y.neg THEN x.neg
    ELSE IF x.neg THEN BigLess(y.mag, x.mag)
    ELSE BigLess(x.mag, y.mag)

\* Math.min / Math.max of two numbers
MathMin(x, y) == IF DLess(y, x) THEN y ELSE x
MathMax(x, y) == IF DLess(x, y) THEN y ELSE x

\* Math.round: floor(x + 0.5), computed exactly, as an integer
MathRound(x) ==
    LET half == Shl(<<1>>, LimbBits * FracLimbs - 1)
    IN  IF ~x.neg THEN BigToInt(DropFrac(BigAdd(x.mag, half)))
        ELSE IF ~BigLess(half, x.mag) THEN 0
        ELSE LET t == BigSub(x.mag, half)
             IN  -(BigToInt(DropFrac(t))
                   + (IF LowZero(t, LimbBits * FracLimbs) THEN 0 ELSE 1))

\* the number a decimal literal with three fraction digits denotes
Scale == Repr.scale
Num(milli) == DDivInt(DFromInt(milli), Scale)


-----------------------------------------------------------------------------
(* Metrics.  A numeric field holds the decimal literal of its value in     *)
(* thousandths (9999 is 9.999); Num gives the number the code works on.    *)
(* Against an integer threshold the literal and the number compare alike,  *)
(* because rounding to binary64 is monotone and never moves one of these   *)
(* literals onto an integer.                                               *)

NumericFields ==
    {"totalProposals", "activeProposals", "avgVoterTurnout",
     "tokenConcentration", "delegateActivity", "proposalSuccessRate",
     "avgProposalDuration", "treasuryHealth", "communityEngagement"}

Lt(milli, k) == milli < k * Scale
Gt(milli, k) == milli > k * Scale

-----------------------------------------------------------------------------
(* HealthScorer                                                            *)

\* key order of the object literal calculateCategoryScores returns, which
\* is the order Object.entries walks
Categories ==
    <<"participation", "decentralization", "activity", "transparency", "stability">>

weights ==
    [participation    |-> Num(250),
     decentralization |-> Num(250),
     activity         |-> Num(200),
     transparency     |-> Num(150),
     stability        |-> Num(150)]

calculateParticipationScoreUnclamped(m) ==
    LET turnoutScore    == DMul(Num(m.avgVoterTurnout), DFromInt(2))
        delegateScore   == Num(m.delegateActivity)
        engagementScore == Num(m.communityEngagement)
    IN  MathRound(DAdd(DAdd(DMul(turnoutScore, Num(400)),
                            DMul(delegateScore, Num(300))),
                       DMul(engagementScore, Num(300))))

\* a slip that scores the turnout by its distance from full turnout
calculateParticipationScoreFalling(m) ==
    LET turnoutScore    == MathMin(DFromInt(100),
                                   DSub(DFromInt(100), DMul(Num(m.avgVoterTurnout), DFromInt(2))))
        delegateScore   == MathMin(DFromInt(100), Num(m.delegateActivity))
        engagementScore == MathMin(DFromInt(100), Num(m.communityEngagement))
    IN  MathRound(DAdd(DAdd(DMul(turnoutScore, Num(400)),
                            DMul(delegateScore, Num(300))),
                       DMul(engagementScore, Num(300))))

calculateParticipationScore(m) ==
    LET turnoutScore    == MathMin(DFromInt(100), DMul(Num(m.avgVoterTurnout), DFromInt(2)))
        delegateScore   == MathMin(DFromInt(100), Num(m.delegateActivity))
        engagementScore == MathMin(DFromInt(100), Num(m.communityEngagement))
    IN  MathRound(DAdd(DAdd(DMul(turnoutScore, Num(400)),
                            DMul(delegateScore, Num(300))),
                       DMul(engagementScore, Num(300))))

\* a slip that scores the concentration itself instead of what is left of it
calculateDecentralizationScoreDirect(m) ==
    LET concentrationScore        == MathMax(DFromInt(0), Num(m.tokenConcentration))
        delegateDistributionScore == MathMin(DFromInt(100), Num(m.delegateActivity))
    IN  MathRound(DAdd(DMul(concentrationScore, Num(700)),
                       DMul(delegateDistributionScore, Num(300))))

calculateDecentralizationScore(m) ==
    LET concentrationScore        == MathMax(DFromInt(0), DSub(DFromInt(100), Num(m.tokenConcentration)))
        delegateDistributionScore == MathMin(DFromInt(100), Num(m.delegateActivity))
    IN  MathRound(DAdd(DMul(concentrationScore, Num(700)),
                       DMul(delegateDistributionScore, Num(300))))

calculateActivityScore(m) ==
    LET proposalActivityScore ==
            MathMin(DFromInt(100), DMul(DDivInt(Num(m.totalProposals), 12), DFromInt(20)))
        activeProposalsScore  == MathMin(DFromInt(100), DMul(Num(m.activeProposals), DFromInt(25)))
        successRateScore      == Num(m.proposalSuccessRate)
    IN  MathRound(DAdd(DAdd(DMul(proposalActivityScore, Num(400)),
                            DMul(activeProposalsScore, Num(300))),
                       DMul(successRateScore, Num(300))))

calculateTransparencyScore(m) ==
    LET proposalScore == IF Gt(m.totalProposals, 10) THEN DFromInt(80) ELSE DFromInt(50)
        durationScore == IF Gt(m.avgProposalDuration, 3) THEN DFromInt(70) ELSE DFromInt(40)
    IN  MathRound(DAdd(DMul(proposalScore, Num(600)), DMul(durationScore, Num(400))))

calculateStabilityScore(m) ==
    LET successRateScore == Num(m.proposalSuccessRate)
        treasuryScore    == Num(m.treasuryHealth)
        durationScore    == MathMin(DFromInt(100), DMul(Num(m.avgProposalDuration), DFromInt(10)))
    IN  MathRound(DAdd(DAdd(DMul(successRateScore, Num(400)),
                            DMul(treasuryScore, Num(300))),
                       DMul(durationScore, Num(300))))

calculateCategoryScores(m) ==
    [participation    |-> calculateParticipationScore(m),
     decentralization |-> calculateDecentralizationScore(m),
     activity         |-> calculateActivityScore(m),
     transparency     |-> calculateTransparencyScore(m),
     stability        |-> calculateStabilityScore(m)]

\* the reduce over Object.entries: total + score * weights[category]
RECURSIVE WeightedTotal(_, _, _)
WeightedTotal(cs, i, total) ==
    IF i > Len(Categories) THEN total
    ELSE WeightedTotal(cs, i + 1,
                       DAdd(total, DMul(DFromInt(cs[Categories[i]]), weights[Categories[i]])))

\* a slip that rounds every term before adding it
RECURSIVE RoundedTermsTotal(_, _)
RoundedTermsTotal(cs, i) ==
    IF i > Len(Categories) THEN 0
    ELSE MathRound(DMul(DFromInt(cs[Categories[i]]), weights[Categories[i]]))
         + RoundedTermsTotal(cs, i + 1)

calculateOverallScoreRoundingTerms(cs) == RoundedTermsTotal(cs, 1)

calculateOverallScore(cs) == MathRound(WeightedTotal(cs, 1, DFromInt(0)))

-----------------------------------------------------------------------------
(* RiskDetector                                                            *)

ParticipationRisk ==
    [type        |-> "HIGH",
     category    |-> "Participation",
     description |-> "Extremely low voter turnout indicates governance apathy",
     impact      |-> "Decisions may not represent community consensus",
     mitigation  |-> "Implement voter incentives and education programs"]

CentralizationRisk ==
    [type        |-> "HIGH",
     category    |-> "Centralization",
     description |-> "High token concentration among few holders",
     impact      |-> "Risk of governance capture and manipulation",
     mitigation  |-> "Encourage token distribution and delegate diversity"]

ActivityRisk ==
    [type        |-> "MEDIUM",
     category    |-> "Activity",
     description |-> "Low governance activity may indicate disengagement",
     impact      |-> "Important decisions may be delayed or ignored",
     mitigation  |-> "Stimulate governance participation with clear processes"]

StabilityRisk ==
    [type        |-> "HIGH",
     category    |-> "Stability",
     description |-> "Very low proposal success rate indicates governance dysfunction",
     impact      |-> "Inability to make necessary protocol changes",
     mitigation  |-> "Review proposal processes and consensus mechanisms"]

DelegationRisk ==
    [type        |-> "MEDIUM",
     category    |-> "Delegation",
     description |-> "Low delegate activity may create governance bottlenecks",
     impact      |-> "Reduced governance efficiency and representation",
     mitigation  |-> "Implement delegate accountability and incentive systems"]

\* risks.push(r) when the rule's condition holds
PushIf(cond, list, r) == IF cond THEN Append(list, r) ELSE list

\* a slip that keeps the list in a field of the detector, so that a call
\* starts from the list the call before returned
LeftoverRiskList ==
    IF history = <<>> THEN <<>> ELSE history[Len(history)].risks

\* const risks: Risk[] = []
NewRiskList == <<>>

\* a slip that writes <= for < in the turnout rule
identifyRisksInclusive(m, cs) ==
    LET r1 == PushIf(~Gt(m.avgVoterTurnout, 10), NewRiskList, ParticipationRisk)
        r2 == PushIf(Gt(m.tokenConcentration, 70), r1, CentralizationRisk)
        r3 == PushIf(Lt(m.totalProposals, 5), r2, ActivityRisk)
        r4 == PushIf(Lt(m.proposalSuccessRate, 30), r3, StabilityRisk)
    IN  PushIf(Lt(m.delegateActivity, 20), r4, DelegationRisk)

\* a slip that returns the risks sorted by severity
identifyRisksBySeverity(m, cs) ==
    LET r1 == PushIf(Lt(m.avgVoterTurnout, 10), NewRiskList, ParticipationRisk)
        r2 == PushIf(Gt(m.tokenConcentration, 70), r1, CentralizationRisk)
        r3 == PushIf(Lt(m.proposalSuccessRate, 30), r2, StabilityRisk)
        r4 == PushIf(Lt(m.totalProposals, 5), r3, ActivityRisk)
    IN  PushIf(Lt(m.delegateActivity, 20), r4, DelegationRisk)

\* a slip that chains the Stability rule to the Activity rule with else-if
identifyRisksChained(m, cs) ==
    LET r1 == PushIf(Lt(m.avgVoterTurnout, 10), NewRiskList, ParticipationRisk)
        r2 == PushIf(Gt(m.tokenConcentration, 70), r1, CentralizationRisk)
        r3 == PushIf(Lt(m.totalProposals, 5), r2, ActivityRisk)
        r4 == PushIf(~Lt(m.totalProposals, 5) /\ Lt(m.proposalSuccessRate, 30),
                     r3, StabilityRisk)
    IN  PushIf(Lt(m.delegateActivity, 20), r4, DelegationRisk)

\* a slip that turns the comparison of the concentration rule around
identifyRisksConcentrationBelow(m, cs) ==
    LET r1 == PushIf(Lt(m.avgVoterTurnout, 10), NewRiskList, ParticipationRisk)
        r2 == PushIf(Lt(m.tokenConcentration, 70), r1, CentralizationRisk)
        r3 == PushIf(Lt(m.totalProposals, 5), r2, ActivityRisk)
        r4 == PushIf(Lt(m.proposalSuccessRate, 30), r3, StabilityRisk)
    IN  PushIf(Lt(m.delegateActivity, 20), r4, DelegationRisk)

identifyRisks(m, cs) ==
    LET r1 == PushIf(Lt(m.avgVoterTurnout, 10), NewRiskList, ParticipationRisk)
        r2 == PushIf(Gt(m.tokenConcentration, 70), r1, CentralizationRisk)
        r3 == PushIf(Lt(m.totalProposals, 5), r2, ActivityRisk)
        r4 == PushIf(Lt(m.proposalSuccessRate, 30), r3, StabilityRisk)
    IN  PushIf(Lt(m.delegateActivity, 20), r4, DelegationRisk)

-----------------------------------------------------------------------------
(* GovernanceAnalyzer                                                      *)

VoterIncentiveRec ==
    "Consider implementing voter incentive programs to increase participation"
DiversificationRec ==
    "Token distribution is concentrated - diversification would improve governance health"
DelegateRecognitionRec ==
    "Delegate engagement is low - consider delegate recognition programs"
HighPriorityRec ==
    "Address high-priority risks immediately to improve governance stability"
ConsensusRec ==
    "Low proposal success rate indicates potential consensus issues"

\* risks.filter(r => r.type === t).length
CountType(list, t) == Cardinality({i \in 1..Len(list) : list[i].type = t})

\* a slip that tests for any risk instead of a HIGH one
generateRecommendationsAnyRisk(m, list) ==
    LET r1 == PushIf(Lt(m.avgVoterTurnout, 20), <<>>, VoterIncentiveRec)
        r2 == PushIf(Gt(m.tokenConcentration, 50), r1, DiversificationRec)
        r3 == PushIf(Lt(m.delegateActivity, 30), r2, DelegateRecognitionRec)
        r4 == PushIf(Len(list) > 0, r3, HighPriorityRec)
    IN  PushIf(Lt(m.proposalSuccessRate, 40), r4, ConsensusRec)

\* a slip that recommends voter incentives below a turnout of 5 only
generateRecommendationsLowTurnout(m, list) ==
    LET r1 == PushIf(Lt(m.avgVoterTurnout, 5), <<>>, VoterIncentiveRec)
        r2 == PushIf(Gt(m.tokenConcentration, 50), r1, DiversificationRec)
        r3 == PushIf(Lt(m.delegateActivity, 30), r2, DelegateRecognitionRec)
        r4 == PushIf(CountType(list, "HIGH") > 0, r3, HighPriorityRec)
    IN  PushIf(Lt(m.proposalSuccessRate, 40), r4, ConsensusRec)

generateRecommendations(m, list) ==
    LET r1 == PushIf(Lt(m.avgVoterTurnout, 20), <<>>, VoterIncentiveRec)
        r2 == PushIf(Gt(m.tokenConcentration, 50), r1, DiversificationRec)
        r3 == PushIf(Lt(m.delegateActivity, 30), r2, DelegateRecognitionRec)
        r4 == PushIf(CountType(list, "HIGH") > 0, r3, HighPriorityRec)
    IN  PushIf(Lt(m.proposalSuccessRate, 40), r4, ConsensusRec)

\* a slip that writes > for >= at the tier boundaries
getInvestmentSignalExclusive(s) ==
    IF s > 80 THEN "STRONG_BUY"
    ELSE IF s > 60 THEN "BUY"
    ELSE IF s > 40 THEN "HOLD"
    ELSE "AVOID"

getInvestmentSignal(s) ==
    IF s >= 80 THEN "STRONG_BUY"
    ELSE IF s >= 60 THEN "BUY"
    ELSE IF s >= 40 THEN "HOLD"
    ELSE "AVOID"

\* a slip that tests the total before the HIGH count
getRiskLevelTotalFirst(list) ==
    LET highRisks == CountType(list, "HIGH")
    IN  IF highRisks > 2 THEN "CRITICAL"
        ELSE IF Len(list) > 3 THEN "MEDIUM"
        ELSE IF highRisks > 0 THEN "HIGH"
        ELSE "LOW"

\* a slip that asks for more than three HIGH risks
getRiskLevelAboveThree(list) ==
    LET highRisks == CountType(list, "HIGH")
    IN  IF highRisks > 3 THEN "CRITICAL"
        ELSE IF highRisks > 0 THEN "HIGH"
        ELSE IF Len(list) > 3 THEN "MEDIUM"
        ELSE "LOW"

\* a slip that repeats the test for more than two HIGH risks
getRiskLevelRepeatedTest(list) ==
    LET highRisks == CountType(list, "HIGH")
    IN  IF highRisks > 2 THEN "CRITICAL"
        ELSE IF highRisks > 2 THEN "HIGH"
        ELSE IF Len(list) > 3 THEN "MEDIUM"
        ELSE "LOW"

getRiskLevel(list) ==
    LET highRisks == CountType(list, "HIGH")
    IN  IF highRisks > 2 THEN "CRITICAL"
        ELSE IF highRisks > 0 THEN "HIGH"
        ELSE IF Len(list) > 3 THEN "MEDIUM"
        ELSE "LOW"

\* risks.filter(r => r.type === t)
FilterType(list, t) == SelectSeq(list, LAMBDA r : r.type = t)

\* `- **${r.category}**: ${r.description}`, a line kept as its pieces
RiskLine(r) == <<"- **", r.category, "**: ", r.description>>

\* list.map(r => line of r)
RiskLines(list) == [i \in 1..Len(list) |-> RiskLine(list[i])]

NoneIdentified == <<"None identified">>

\* a slip that leaves the fallback text out
JoinOrNothing(lines, fallback) == lines

\* lines.join('\n') || fallback: the join of no line is the empty string,
\* which is falsy; a text is kept as the sequence of its lines
JoinOr(lines, fallback) == IF lines = <<>> THEN <<fallback>> ELSE lines

\* `- ${rec}`
RecommendationLines(list) == [i \in 1..Len(list) |-> <<"- ", list[i]>>]

\* `- **${category}**: ${score}/100` over Object.entries(categoryScores)
CategoryLines(cs) ==
    [i \in 1..Len(Categories) |-> <<"- **", Categories[i], "**: ", cs[Categories[i]], "/100">>]

\* the interpolated parts of the template of getDetailedReport
DetailedReport(cs, overall, list, recs) ==
    [overallScore     |-> overall,
     signal           |-> getInvestmentSignal(overall),
     categories       |-> CategoryLines(cs),
     totalRisks       |-> Len(list),
     highPriority     |-> JoinOr(RiskLines(FilterType(list, "HIGH")), NoneIdentified),
     mediumPriority   |-> JoinOr(RiskLines(FilterType(list, "MEDIUM")), NoneIdentified),
     recommendations  |-> RecommendationLines(recs),
     riskLevel        |-> getRiskLevel(list),
     maturity         |-> IF overall > 70 THEN "High"
                          ELSE IF overall > 50 THEN "Medium" ELSE "Low",
     diversification  |-> IF cs.decentralization > 60 THEN "Well distributed"
                          ELSE "Concentrated"]

-----------------------------------------------------------------------------
(* Inputs                                                                  *)

MaxEdits == 1     \* fields in which a request's metrics differ from a base record
MaxCalls == 3     \* calls whose results are kept for comparison
MaxRisks == 4     \* length of a hand-made risk list
MaxScore == 100   \* top of the score scale
MaxCallers == 2   \* analyzeDAO calls that can be in progress at once

Metrics(tp, ap, vt, tc, da, sr, du, th, ce) ==
    [name |-> "Sample DAO", symbol |-> "SMP",
     totalProposals |-> tp, activeProposals |-> ap, avgVoterTurnout |-> vt,
     tokenConcentration |-> tc, delegateActivity |-> da,
     proposalSuccessRate |-> sr, avgProposalDuration |-> du,
     treasuryHealth |-> th, communityEngagement |-> ce]

MetricsA    == Metrics(25000, 3000, 40000, 30000, 60000, 75000, 5000, 80000, 50000)
MetricsB    == Metrics(2000, 0, 5000, 85000, 10000, 15000, 1000, 20000, 5000)
MetricsZero == Metrics(0, 0, 0, 0, 0, 0, 0, 0, 0)
MetricsFull == Metrics(60000, 4000, 100000, 100000, 100000, 100000, 10000, 100000, 100000)
\* 0.4*0 + 0.3*1 + 0.3*24 is 7.5 in exact arithmetic and below it in binary64
MetricsTie  == Metrics(12000, 1000, 0, 40000, 1000, 50000, 4000, 50000, 24000)

BaseMetrics == {MetricsA, MetricsB, MetricsZero, MetricsFull, MetricsTie}

FieldValues(f) ==
    CASE f = "totalProposals"      -> {-3000, 4000, 5000, 10000, 11000, 90000}
      [] f = "activeProposals"     -> {-2000, 1000, 2000, 9000}
      [] f = "avgVoterTurnout"     -> {-50000, 9999, 10000, 19999, 20000, 50000, 100000, 150000}
      [] f = "tokenConcentration"  -> {-20000, 50000, 50001, 70000, 70001, 100000, 150000}
      [] f = "delegateActivity"    -> {-20000, 19999, 20000, 29999, 30000, 100000, 250000}
      [] f = "proposalSuccessRate" -> {-10000, 29999, 30000, 39999, 40000, 100000, 500000}
      [] f = "avgProposalDuration" -> {-1000, 3000, 3001, 10000, 30000}
      [] f = "treasuryHealth"      -> {-50000, 50000, 100000, 300000}
      [] f = "communityEngagement" -> {-50000, 50000, 100000, 300000}

ScoreValues == {0, 1, 9, 50, 99, 100}

CategorySet == {Categories[i] : i \in 1..Len(Categories)}

\* a risk of the third severity the Risk type allows
LowRisk ==
    [type        |-> "LOW",
     category    |-> "Other",
     description |-> "A minor finding",
     impact      |-> "Negligible",
     mitigation  |-> "None needed"]

RiskLists ==
    UNION {[1..n -> {ParticipationRisk, ActivityRisk, LowRisk}] : n \in 0..MaxRisks}

-----------------------------------------------------------------------------
(* Operations                                                              *)

\* DAO identifiers a client may send: a known slug, a known alias in
\* capitals, a name only the search finds, a name nothing finds
Identifiers == {"uniswap", "Maker", "uni", "nosuchdao"}

NoRequest == [name |-> "none", arguments |-> <<>>]

NoResponse == [kind |-> "none"]

\* new NodeCache({ stdTTL: 300 }): no key set; get of an absent key is falsy
EmptyCache == [id \in Identifiers |-> <<>>]

\* a string is kept as the pieces between its underscores, so that joining
\* strings with '_' is the concatenation of their pieces
Platforms == {<<"tally">>, <<"tally", "v2">>}

\* the identifiers 'uniswap' and 'v2_uniswap'
DaoIdentifiers == {<<"uniswap">>, <<"v2", "uniswap">>}

\* `analysis_${platform}_${daoIdentifier}`
cacheKey(platform, daoIdentifier) == <<"analysis">> \o platform \o daoIdentifier

CacheKeys == {cacheKey(p, i) : p \in Platforms, i \in DaoIdentifiers}

Callers == 1..MaxCallers

\* no analyzeDAO call made by this caller
NoCall ==
    [state |-> "idle", platform |-> <<>>, daoIdentifier |-> <<>>,
     fetched |-> FALSE, result |-> <<>>, error |-> <<>>]

NoComparison == [state |-> "idle", size |-> 0, result |-> <<>>, error |-> <<>>]

\* the analyzer after its constructor: new CacheManager(1800), nothing kept
AnalyzerIdle ==
    /\ analyzerCache = [k \in CacheKeys |-> <<>>]
    /\ calls = [c \in Callers |-> NoCall]
    /\ compareCall = NoComparison

\* the server after its constructor, no tool called yet
ServerIdle ==
    /\ request = NoRequest
    /\ lookups = <<>>
    /\ response = NoResponse
    /\ serverCache = EmptyCache

NoScores == [c \in CategorySet |-> 0]

\* no report has been written yet
NoReport == "none"

\* a call that has not run yet has no results
Fresh ==
    /\ categoryScores = NoScores
    /\ overallScore = 0
    /\ risks = <<>>
    /\ recommendations = <<>>
    /\ riskLevel = "none"
    /\ signal = "none"
    /\ report = NoReport

\* the results of the call before are gone when a new call starts
Reset ==
    /\ categoryScores' = NoScores
    /\ overallScore' = 0
    /\ risks' = <<>>
    /\ recommendations' = <<>>
    /\ riskLevel' = "none"
    /\ signal' = "none"
    /\ report' = NoReport

Init ==
    /\ metrics \in BaseMetrics
    /\ Fresh
    /\ ServerIdle
    /\ AnalyzerIdle
    /\ healthOf = <<>>
    /\ history = <<>>
    /\ edits = 0
    /\ pc = "input"

\* a request whose fetched metrics differ in one field from the last one's
NewRequest(f, v) ==
    /\ edits < MaxEdits
    /\ metrics[f] # v
    /\ metrics' = [metrics EXCEPT ![f] = v]
    /\ edits' = edits + 1
    /\ Reset
    /\ pc' = "input"
    /\ UNCHANGED history
    /\ UNCHANGED serverVars
    /\ UNCHANGED analyzerVars

\* a request for one of the base records
Submit(m) ==
    /\ metrics' = m
    /\ Reset
    /\ pc' = "input"
    /\ UNCHANGED <<history, edits>>
    /\ UNCHANGED serverVars
    /\ UNCHANGED analyzerVars

\* analyzeDAO after the fetch: scores, overall score, risks, recommendations
Pipeline ==
    /\ pc = "input"
    /\ categoryScores' = calculateCategoryScores(metrics)
    /\ overallScore' = calculateOverallScore(categoryScores')
    /\ risks' = identifyRisks(metrics, categoryScores')
    /\ recommendations' = generateRecommendations(metrics, risks')
    /\ pc' = "done"
    /\ UNCHANGED <<metrics, riskLevel, signal, report, edits>>
    /\ UNCHANGED serverVars
    /\ UNCHANGED analyzerVars

Analyze == Pipeline /\ UNCHANGED history

\* the same call, its input and results kept by the caller
AnalyzeRecorded ==
    /\ Len(history) < MaxCalls
    /\ Pipeline
    /\ history' = Append(history,
                         [metrics         |-> metrics',
                          categoryScores  |-> categoryScores',
                          overallScore    |-> overallScore',
                          risks           |-> risks',
                          recommendations |-> recommendations'])

\* getDetailedReport once analyzeDAO has resolved: the two classifications
GetDetailedReport ==
    /\ pc = "done"
    /\ signal' = getInvestmentSignal(overallScore)
    /\ riskLevel' = getRiskLevel(risks)
    /\ report' = DetailedReport(categoryScores, overallScore, risks, recommendations)
    /\ pc' = "reported"
    /\ UNCHANGED <<metrics, categoryScores, overallScore, risks,
                   recommendations, history, edits>>
    /\ UNCHANGED serverVars
    /\ UNCHANGED analyzerVars

Next ==
    \/ \E f \in NumericFields : \E v \in FieldValues(f) : NewRequest(f, v)
    \/ Analyze
    \/ GetDetailedReport

Spec == Init /\ [][Next]_vars

\* repeated calls on a few records, every result kept
NextRepeat ==
    \/ \E m \in BaseMetrics : Submit(m)
    \/ AnalyzeRecorded

SpecRepeat == Init /\ [][NextRepeat]_vars

\* calculateOverallScore called on a score record of the caller's making
InitScores ==
    /\ metrics = MetricsZero
    /\ categoryScores \in [CategorySet -> ScoreValues]
    /\ overallScore = 0
    /\ risks = <<>>
    /\ recommendations = <<>>
    /\ riskLevel = "none"
    /\ signal = "none"
    /\ report = NoReport
    /\ ServerIdle
    /\ AnalyzerIdle
    /\ healthOf = <<>>
    /\ history = <<>>
    /\ edits = 0
    /\ pc = "input"

CallCalculateOverallScore ==
    /\ pc = "input"
    /\ overallScore' = calculateOverallScore(categoryScores)
    /\ pc' = "done"
    /\ UNCHANGED <<metrics, categoryScores, risks, recommendations,
                   riskLevel, signal, report, history, edits>>
    /\ UNCHANGED serverVars
    /\ UNCHANGED analyzerVars

SpecScores == InitScores /\ [][CallCalculateOverallScore]_vars

\* getRiskLevel called on a risk list of the caller's making
InitRiskLists ==
    /\ metrics = MetricsZero
    /\ categoryScores = NoScores
    /\ overallScore = 0
    /\ risks \in RiskLists
    /\ recommendations = <<>>
    /\ riskLevel = "none"
    /\ signal = "none"
    /\ report = NoReport
    /\ ServerIdle
    /\ AnalyzerIdle
    /\ healthOf = <<>>
    /\ history = <<>>
    /\ edits = 0
    /\ pc = "input"

CallGetRiskLevel ==
    /\ pc = "input"
    /\ riskLevel' = getRiskLevel(risks)
    /\ pc' = "done"
    /\ UNCHANGED <<metrics, categoryScores, overallScore, risks,
                   recommendations, signal, report, history, edits>>
    /\ UNCHANGED serverVars
    /\ UNCHANGED analyzerVars

SpecRiskLevel == InitRiskLists /\ [][CallGetRiskLevel]_vars

\* getInvestmentSignal called on every score of the scale
InitSignal ==
    /\ metrics = MetricsZero
    /\ categoryScores = NoScores
    /\ overallScore \in 0..MaxScore
    /\ risks = <<>>
    /\ recommendations = <<>>
    /\ riskLevel = "none"
    /\ signal = "none"
    /\ report = NoReport
    /\ ServerIdle
    /\ AnalyzerIdle
    /\ healthOf = <<>>
    /\ history = <<>>
    /\ edits = 0
    /\ pc = "input"

CallGetInvestmentSignal ==
    /\ pc = "input"
    /\ signal' = getInvestmentSignal(overallScore)
    /\ pc' = "done"
    /\ UNCHANGED <<metrics, categoryScores, overallScore, risks,
                   recommendations, riskLevel, report, history, edits>>
    /\ UNCHANGED serverVars
    /\ UNCHANGED analyzerVars

SpecSignal == InitSignal /\ [][CallGetInvestmentSignal]_vars

-----------------------------------------------------------------------------
(* TallyClient                                                             *)

\* what a lookup returns when there is no DAO
null == "null"

\* identifier.toLowerCase(), on the identifiers of the model
toLowerCase(identifier) ==
    CASE identifier = "Maker" -> "maker"
      [] OTHER -> identifier

knownMappings ==
    [uniswap |-> "uniswap", compound |-> "compound", aave |-> "aave",
     makerdao |-> "makerdao", maker |-> "makerdao", curve |-> "curve-dao",
     yearn |-> "yearn-finance", sushi |-> "sushiswap", sushiswap |-> "sushiswap",
     arbitrum |-> "arbitrum-dao", optimism |-> "optimism-collective",
     polygon |-> "polygon-ecosystem-dao", ens |-> "ens", balancer |-> "balancer",
     gitcoin |-> "gitcoin", bankless |-> "banklessdao", nouns |-> "nouns-dao",
     apecoin |-> "apecoin-dao"]
    @@ ("ethereum-name-service" :> "ens")

\* knownMappings[identifier.toLowerCase()] || identifier.toLowerCase()
getKnownDAOSlug(identifier) ==
    IF toLowerCase(identifier) \in DOMAIN knownMappings
    THEN knownMappings[toLowerCase(identifier)]
    ELSE toLowerCase(identifier)

\* the governances the Tally API holds, by slug
Governances == {"uniswap", "makerdao"}

\* the slugs of the nodes the Tally API returns for a search
SearchHits(query) ==
    CASE query \in {"uni", "uniswap"} -> <<"uniswap">>
      [] query = "Maker" -> <<"makerdao">>
      [] OTHER -> <<>>

\* the outcomes of the three requests one lookup can send: TRUE when the
\* request is answered, FALSE when it fails (network, HTTP or GraphQL error)
Nets == [1..3 -> BOOLEAN]

\* a failed request is caught and gives null, as does a missing governance
getGovernanceBySlug(slug, answered) ==
    IF answered /\ slug \in Governances THEN slug ELSE null

\* a failed request is caught and gives no result
searchGovernances(query, answered) ==
    IF answered THEN SearchHits(query) ELSE <<>>

getDAOByIdentifier(identifier, net) ==
    LET knownSlug     == getKnownDAOSlug(identifier)
        dao           == getGovernanceBySlug(knownSlug, net[1])
        searchResults == searchGovernances(identifier, net[2])
    IN  IF dao # null THEN dao
        ELSE IF Len(searchResults) > 0
             THEN getGovernanceBySlug(searchResults[1], net[3])
             ELSE null

\* how the lookup ended: with a DAO, with a request that failed on the way
\* to null, or with the API answering that there is none
LookupOutcome(identifier, net) ==
    LET searchResults == searchGovernances(identifier, net[2])
    IN  IF getDAOByIdentifier(identifier, net) # null THEN "found"
        ELSE IF ~net[1] \/ ~net[2] \/ (Len(searchResults) > 0 /\ ~net[3])
             THEN "fetch failed"
             ELSE "not found"

-----------------------------------------------------------------------------
(* GovernanceHealthMCPServer                                               *)

ToolNames == {"analyze_dao_health", "compare_daos", "identify_risks", "get_detailed_report"}

\* the names a request may carry, one of them no tool of the server
RequestNames == ToolNames \cup {"delete_dao"}

\* the dao_identifiers a compare_daos request carries
IdentifierLists ==
    {<<>>, <<"uniswap">>, <<"nosuchdao">>, <<"uniswap", "Maker">>, <<"nosuchdao", "uni">>}

\* the arguments a request for tool name may carry, as a list of identifiers
ArgumentsOf(name) ==
    IF name = "compare_daos" THEN IdentifierLists
    ELSE {<<id>> : id \in Identifiers}

\* the analyzer methods the handler of a tool calls
MethodsOf(name) ==
    CASE name = "analyze_dao_health"  -> {"analyzeGovernanceHealth"}
      [] name = "compare_daos"        -> {"analyzeGovernanceHealth", "compareDAOs"}
      [] name = "identify_risks"      -> {"identifyRisks"}
      [] name = "get_detailed_report" -> {"generateDetailedReport"}
      [] OTHER -> {}

\* a call of an analyzer method returns a value, throws an Error with a
\* message or throws one without
AnalyzerOutcomes == {"returns", "throws", "throws without message"}

\* the value a method returns for a DAO, as the pieces of its JSON text
AnalyzerValue(method, dao) == <<method, dao>>

\* the message of the error a method throws
AnalyzerMessage(method, outcome) ==
    IF outcome = "throws" THEN <<method, " failed">> ELSE <<>>

\* { content: [{ type: 'text', text }] }
TextResponse(text) == [kind |-> "return", content |-> <<[type |-> "text", text |-> text]>>]

\* throw new Error(message)
Throw(message) == [kind |-> "throw", message |-> message]

\* JSON.stringify(value, null, 2)
JSONstringify(value) == <<"JSON">> \o value

NotFoundTry(id) ==
    <<"DAO '", id,
      "' not found. Try: uniswap, compound, aave, makerdao, curve, yearn, sushi, arbitrum, optimism, ens, balancer">>

\* the handlers of the three tools that take one dao_identifier and do not
\* cache: lookup, throw when there is no DAO, else the analyzer's value
HandleOne(method, id, net, outcome, cache) ==
    LET dao == getDAOByIdentifier(id, net)
    IN  [response |-> IF dao = null THEN Throw(NotFoundTry(id))
                      ELSE IF outcome # "returns" THEN Throw(AnalyzerMessage(method, outcome))
                      ELSE TextResponse(JSONstringify(AnalyzerValue(method, dao))),
         cache    |-> cache,
         lookups  |-> <<LookupOutcome(id, net)>>]

handleAnalyzeDAOHealth(id, net, outcome, cache) ==
    LET cached == cache[id]
        dao    == getDAOByIdentifier(id, net)
        health == AnalyzerValue("analyzeGovernanceHealth", dao)
    IN  IF cached # <<>>
        THEN [response |-> TextResponse(JSONstringify(cached)),
              cache    |-> cache,
              lookups  |-> <<>>]
        ELSE IF dao = null
        THEN [response |-> Throw(NotFoundTry(id)),
              cache    |-> cache,
              lookups  |-> <<LookupOutcome(id, net)>>]
        ELSE IF outcome # "returns"
        THEN [response |-> Throw(AnalyzerMessage("analyzeGovernanceHealth", outcome)),
              cache    |-> cache,
              lookups  |-> <<LookupOutcome(id, net)>>]
        ELSE [response |-> TextResponse(JSONstringify(health)),
              cache    |-> [cache EXCEPT ![id] = health],
              lookups  |-> <<LookupOutcome(id, net)>>]

\* Promise.allSettled over the identifiers, the fulfilled values kept
handleCompareDAOs(ids, nets, an, cache) ==
    LET analyses ==
            [i \in 1..Len(ids) |->
                LET dao == getDAOByIdentifier(ids[i], nets[i])
                IN  IF dao = null \/ an["analyzeGovernanceHealth"] # "returns"
                    THEN <<>>
                    ELSE AnalyzerValue("analyzeGovernanceHealth", dao)]
        successful == SelectSeq(analyses, LAMBDA v : v # <<>>)
        comparison == <<"compareDAOs">> \o [i \in 1..Len(successful) |-> successful[i][2]]
    IN  [response |-> IF Len(successful) = 0
                      THEN Throw(<<"No DAOs could be analyzed. Check the identifiers.">>)
                      ELSE IF an["compareDAOs"] # "returns"
                      THEN Throw(AnalyzerMessage("compareDAOs", an["compareDAOs"]))
                      ELSE TextResponse(JSONstringify(comparison)),
         cache    |-> cache,
         lookups  |-> [i \in 1..Len(ids) |-> LookupOutcome(ids[i], nets[i])]]

\* the switch on request.params.name
Dispatch(name, ids, nets, an, cache) ==
    CASE name = "analyze_dao_health" ->
             handleAnalyzeDAOHealth(ids[1], nets[1], an["analyzeGovernanceHealth"], cache)
      [] name = "compare_daos" ->
             handleCompareDAOs(ids, nets, an, cache)
      [] name = "identify_risks" ->
             HandleOne("identifyRisks", ids[1], nets[1], an["identifyRisks"], cache)
      [] name = "get_detailed_report" ->
             HandleOne("generateDetailedReport", ids[1], nets[1],
                       an["generateDetailedReport"], cache)
      [] OTHER ->
             [response |-> Throw(<<"Unknown tool: ", name>>), cache |-> cache, lookups |-> <<>>]

TryAnother == ". Please try with a different DAO identifier like: uniswap, compound, aave, makerdao."

\* a slip that leaves the default branch of the switch outside the try
CatchKnownTools(r) ==
    IF r.kind = "throw" /\ r.message = <<>>
    THEN TextResponse(<<"Error: ", "Unknown error occurred", TryAnother>>)
    ELSE IF r.kind = "throw" /\ r.message[1] # "Unknown tool: "
    THEN TextResponse(<<"Error: ">> \o r.message \o <<TryAnother>>)
    ELSE r

\* catch (error): the error becomes the text of a response
CatchToolError(r) ==
    IF r.kind = "throw"
    THEN TextResponse(<<"Error: ">>
                      \o (IF r.message = <<>> THEN <<"Unknown error occurred">> ELSE r.message)
                      \o <<TryAnother>>)
    ELSE r

\* the CallTool request handler, from the request to what it hands back
CallTool(name, ids, nets, an) ==
    LET r == Dispatch(name, ids, nets, an, serverCache)
    IN  /\ request' = [name |-> name, arguments |-> ids]
        /\ lookups' = r.lookups
        /\ response' = CatchToolError(r.response)
        /\ serverCache' = r.cache
        /\ UNCHANGED <<metrics, categoryScores, overallScore, risks, recommendations,
                       riskLevel, signal, report, history, edits, pc>>
        /\ UNCHANGED analyzerVars

\* the entry of an identifier reaches its time to live and is dropped
CacheExpire(id) ==
    /\ serverCache[id] # <<>>
    /\ serverCache' = [serverCache EXCEPT ![id] = <<>>]
    /\ UNCHANGED <<request, lookups, response>>
    /\ UNCHANGED <<metrics, categoryScores, overallScore, risks, recommendations,
                   riskLevel, signal, report, history, edits, pc>>
    /\ UNCHANGED analyzerVars

InitServer ==
    /\ metrics = MetricsZero
    /\ Fresh
    /\ ServerIdle
    /\ AnalyzerIdle
    /\ healthOf = <<>>
    /\ history = <<>>
    /\ edits = 0
    /\ pc = "input"

NextServer ==
    \/ \E name \in RequestNames : \E ids \in ArgumentsOf(name) :
           \E nets \in [1..Len(ids) -> Nets] :
               \E an \in [MethodsOf(name) -> AnalyzerOutcomes] :
                   CallTool(name, ids, nets, an)
    \/ \E id \in Identifiers : CacheExpire(id)

SpecServer == InitServer /\ [][NextServer]_vars

-----------------------------------------------------------------------------
(* GovernanceAnalyzer.analyzeDAO and compareDAOs with their cache          *)

\* metrics.name of the DAO an identifier stands for
DaoName(daoIdentifier) ==
    IF daoIdentifier = <<"uniswap">> THEN "Uniswap" ELSE "Uniswap V2"

Named(m, daoIdentifier) == [m EXCEPT !.name = DaoName(daoIdentifier), !.symbol = "UNI"]

\* the metrics the provider holds for an identifier, at one time or another
ProviderData(daoIdentifier) ==
    IF daoIdentifier = <<"uniswap">>
    THEN {Named(MetricsA, daoIdentifier), Named(MetricsB, daoIdentifier)}
    ELSE {Named(MetricsTie, daoIdentifier)}

ProviderRecords == UNION {ProviderData(i) : i \in DaoIdentifiers}

\* tallyClient.getDAOMetrics: a DAOMetrics record, or a failure (DAO not
\* found, network failure)
TallyMetricsOutcomes(daoIdentifier) ==
    {[ok |-> TRUE, metrics |-> m, error |-> <<>>] : m \in ProviderData(daoIdentifier)}
        \cup {[ok |-> FALSE, metrics |-> MetricsZero, error |-> <<"DAO metrics not available">>]}

\* the switch on the platform
getDAOMetrics(daoIdentifier, platform) ==
    IF platform = <<"tally">>
    THEN TallyMetricsOutcomes(daoIdentifier)
    ELSE {[ok |-> FALSE, metrics |-> MetricsZero,
           error |-> <<"Platform">> \o platform \o <<"not supported">>]}

\* the health object analyzeDAO builds from fetched metrics; lastUpdated,
\* the time of the call, is left out
Health(m) ==
    LET cs == calculateCategoryScores(m)
        rs == identifyRisks(m, cs)
    IN  [dao             |-> m.name,
         overallScore    |-> calculateOverallScore(cs),
         categoryScores  |-> cs,
         risks           |-> rs,
         recommendations |-> generateRecommendations(m, rs)]

\* Health over the records the provider can return; the pipeline is a pure
\* function, its results are worked out once and kept in healthOf
HealthTable == [m \in ProviderRecords |-> Health(m)]

\* analyzeDAO up to its first await: the cached health, if any, is returned
analyzeDAOStart(platform, daoIdentifier, cache) ==
    LET cached == cache[cacheKey(platform, daoIdentifier)]
    IN  [state         |-> IF cached # <<>> THEN "returned" ELSE "fetching",
         platform      |-> platform,
         daoIdentifier |-> daoIdentifier,
         fetched       |-> FALSE,
         result        |-> cached,
         error         |-> <<>>]

\* a slip that stores a placeholder in the catch block
analyzeDAOResumeCachingFailure(call, outcome, cache) ==
    IF outcome.ok
    THEN [call  |-> [call EXCEPT !.state = "returned", !.fetched = TRUE,
                                 !.result = <<healthOf[outcome.metrics]>>],
          cache |-> [cache EXCEPT ![cacheKey(call.platform, call.daoIdentifier)]
                                      = <<healthOf[outcome.metrics]>>]]
    ELSE [call  |-> [call EXCEPT !.state = "threw", !.error = outcome.error],
          cache |-> [cache EXCEPT ![cacheKey(call.platform, call.daoIdentifier)]
                                      = <<Health(MetricsZero)>>]]

\* analyzeDAO after the await: the pipeline and cache.set, or the rethrow
analyzeDAOResume(call, outcome, cache) ==
    IF outcome.ok
    THEN [call  |-> [call EXCEPT !.state = "returned", !.fetched = TRUE,
                                 !.result = <<healthOf[outcome.metrics]>>],
          cache |-> [cache EXCEPT ![cacheKey(call.platform, call.daoIdentifier)]
                                      = <<healthOf[outcome.metrics]>>]]
    ELSE [call  |-> [call EXCEPT !.state = "threw", !.error = outcome.error],
          cache |-> cache]

\* a slip that compares a with b: a.overallScore - b.overallScore
InsertAscending(sorted, h) ==
    LET k == Cardinality({j \in 1..Len(sorted) : sorted[j].overallScore <= h.overallScore})
    IN  SubSeq(sorted, 1, k) \o <<h>> \o SubSeq(sorted, k + 1, Len(sorted))

\* h goes behind every health whose score is not below its own
InsertByScore(sorted, h) ==
    LET k == Cardinality({j \in 1..Len(sorted) : sorted[j].overallScore >= h.overallScore})
    IN  SubSeq(sorted, 1, k) \o <<h>> \o SubSeq(sorted, k + 1, Len(sorted))

\* analyses.sort((a, b) => b.overallScore - a.overallScore), a stable sort
RECURSIVE SortPrefix(_, _)
SortPrefix(analyses, n) ==
    IF n = 0 THEN <<>> ELSE InsertByScore(SortPrefix(analyses, n - 1), analyses[n])

SortByScore(analyses) == SortPrefix(analyses, Len(analyses))

\* the identifier lists a compareDAOs call may carry
IdentifierSeqs == UNION {[1..n -> DaoIdentifiers] : n \in 0..MaxCallers}

InBatch(c) == compareCall.state = "running" /\ c <= compareCall.size

\* a caller calls analyzeDAO
AnalyzeDAO(c, daoIdentifier, platform) ==
    /\ calls[c].state = "idle"
    /\ calls' = [calls EXCEPT ![c] = analyzeDAOStart(platform, daoIdentifier, analyzerCache)]
    /\ UNCHANGED <<analyzerCache, compareCall, healthOf>>
    /\ UNCHANGED pipelineVars
    /\ UNCHANGED serverVars

\* the fetch of a call settles and the call runs to its end
FetchSettles(c, outcome) ==
    /\ calls[c].state = "fetching"
    /\ LET r == analyzeDAOResume(calls[c], outcome, analyzerCache)
       IN  /\ calls' = [calls EXCEPT ![c] = r.call]
           /\ analyzerCache' = r.cache
    /\ UNCHANGED <<compareCall, healthOf>>
    /\ UNCHANGED pipelineVars
    /\ UNCHANGED serverVars

\* the caller has its result or its error and is free to call again
CallerTakes(c) ==
    /\ calls[c].state \in {"returned", "threw"}
    /\ ~InBatch(c)
    /\ calls' = [calls EXCEPT ![c] = NoCall]
    /\ UNCHANGED <<analyzerCache, compareCall, healthOf>>
    /\ UNCHANGED pipelineVars
    /\ UNCHANGED serverVars

\* an entry reaches its time to live
AnalyzerCacheExpire(key) ==
    /\ analyzerCache[key] # <<>>
    /\ analyzerCache' = [analyzerCache EXCEPT ![key] = <<>>]
    /\ UNCHANGED <<calls, compareCall, healthOf>>
    /\ UNCHANGED pipelineVars
    /\ UNCHANGED serverVars

\* compareDAOs: daoIdentifiers.map(id => this.analyzeDAO(id, platform)),
\* every call run to its first await
CompareDAOs(ids, platform) ==
    /\ compareCall.state = "idle"
    /\ \A c \in 1..Len(ids) : calls[c].state = "idle"
    /\ calls' = [c \in Callers |->
                     IF c <= Len(ids)
                     THEN analyzeDAOStart(platform, ids[c], analyzerCache)
                     ELSE calls[c]]
    /\ compareCall' = [NoComparison EXCEPT !.state = "running", !.size = Len(ids)]
    /\ UNCHANGED <<analyzerCache, healthOf>>
    /\ UNCHANGED pipelineVars
    /\ UNCHANGED serverVars

\* Promise.all rejects with a call that threw
CompareThrows(c) ==
    /\ InBatch(c)
    /\ calls[c].state = "threw"
    /\ compareCall' = [compareCall EXCEPT !.state = "threw", !.error = calls[c].error]
    /\ UNCHANGED <<analyzerCache, calls, healthOf>>
    /\ UNCHANGED pipelineVars
    /\ UNCHANGED serverVars

\* Promise.all resolves once every call has returned; the analyses are sorted
CompareReturns ==
    /\ compareCall.state = "running"
    /\ \A c \in 1..compareCall.size : calls[c].state = "returned"
    /\ compareCall' =
           [compareCall EXCEPT
               !.state = "returned",
               !.result = SortByScore([c \in 1..compareCall.size |-> calls[c].result[1]])]
    /\ UNCHANGED <<analyzerCache, calls, healthOf>>
    /\ UNCHANGED pipelineVars
    /\ UNCHANGED serverVars

\* the caller of compareDAOs has its answer
CallerTakesComparison ==
    /\ compareCall.state \in {"returned", "threw"}
    /\ compareCall' = NoComparison
    /\ UNCHANGED <<analyzerCache, calls, healthOf>>
    /\ UNCHANGED pipelineVars
    /\ UNCHANGED serverVars

InitAnalyzer ==
    /\ metrics = MetricsZero
    /\ Fresh
    /\ ServerIdle
    /\ AnalyzerIdle
    /\ healthOf = HealthTable
    /\ history = <<>>
    /\ edits = 0
    /\ pc = "input"

NextAnalyzer ==
    \/ \E c \in Callers : \E i \in DaoIdentifiers : \E p \in Platforms : AnalyzeDAO(c, i, p)
    \/ \E c \in Callers :
           \E o \in getDAOMetrics(calls[c].daoIdentifier, calls[c].platform) : FetchSettles(c, o)
    \/ \E c \in Callers : CallerTakes(c)
    \/ \E k \in CacheKeys : AnalyzerCacheExpire(k)
    \/ \E ids \in IdentifierSeqs : \E p \in Platforms : CompareDAOs(ids, p)
    \/ \E c \in Callers : CompareThrows(c)
    \/ CompareReturns
    \/ CallerTakesComparison

SpecAnalyzer == InitAnalyzer /\ [][NextAnalyzer]_vars

-----------------------------------------------------------------------------
(* Properties                                                              *)

Returned == pc # "input"

PercentFields ==
    {"avgVoterTurnout", "tokenConcentration", "proposalSuccessRate",
     "treasuryHealth", "communityEngagement"}

\* percentages within [0,100], every other number non-negative
Valid(m) ==
    /\ \A f \in PercentFields : m[f] >= 0 /\ m[f] <= 100 * Scale
    /\ \A f \in NumericFields \ PercentFields : m[f] >= 0

RuleOrder ==
    <<"Participation", "Centralization", "Activity", "Stability", "Delegation">>

RuleType == <<"HIGH", "HIGH", "MEDIUM", "HIGH", "MEDIUM">>

RuleIndex(c) == CHOOSE k \in 1..Len(RuleOrder) : RuleOrder[k] = c

\* the threshold condition of risk rule k
RuleHolds(k, m) ==
    CASE k = 1 -> m.avgVoterTurnout < 10 * Scale
      [] k = 2 -> m.tokenConcentration > 70 * Scale
      [] k = 3 -> m.totalProposals < 5 * Scale
      [] k = 4 -> m.proposalSuccessRate < 30 * Scale
      [] k = 5 -> m.delegateActivity < 20 * Scale

HasRisk(list, t, c) == \E i \in 1..Len(list) : list[i].type = t /\ list[i].category = c

HasCategory(list, c) == \E i \in 1..Len(list) : list[i].category = c

\* C1: valid metrics (percentages in [0,100], the other numbers
\* non-negative) give five category scores and an overall score that are
\* integers in [0,100]
C1_ValidMetricsScoreInRange ==
    (Returned /\ Valid(metrics)) =>
        /\ \A c \in CategorySet : categoryScores[c] \in 0..MaxScore
        /\ overallScore \in 0..MaxScore

C1_Witness ==
    /\ pc = "done"
    /\ Valid(metrics)
    /\ metrics.delegateActivity > 100 * Scale
    /\ categoryScores.participation = MaxScore

\* C2: whatever the metrics, negative or far above 100, every category
\* score is in [0,100]
C2_AnyMetricsScoreInRange ==
    Returned => \A c \in CategorySet : categoryScores[c] \in 0..MaxScore

\* C3: the overall score is the weighted sum 0.25 P + 0.25 D + 0.20 A +
\* 0.15 T + 0.15 S of the five given scores, rounded once as a whole: it is
\* Math.round of that sum as the number arithmetic evaluates it, and it lies
\* within one half of the sum's exact value
C3_OverallIsSumRoundedOnce ==
    pc = "done" =>
        LET P == categoryScores.participation
            D == categoryScores.decentralization
            A == categoryScores.activity
            T == categoryScores.transparency
            S == categoryScores.stability
            sum == DAdd(DAdd(DAdd(DAdd(DMul(Num(250), DFromInt(P)),
                                       DMul(Num(250), DFromInt(D))),
                                  DMul(Num(200), DFromInt(A))),
                             DMul(Num(150), DFromInt(T))),
                        DMul(Num(150), DFromInt(S)))
            exact100 == 25 * P + 25 * D + 20 * A + 15 * T + 15 * S
        IN  /\ overallScore = MathRound(sum)
            /\ 100 * overallScore - exact100 \in -50..50

C3_Witness ==
    /\ pc = "done"
    /\ \A c \in CategorySet : categoryScores[c] = 1
    /\ overallScore = 1

\* C4: each risk is reported exactly when its strict threshold condition
\* holds: HIGH Participation iff turnout < 10, HIGH Centralization iff
\* concentration > 70, MEDIUM Activity iff total proposals < 5, HIGH
\* Stability iff success rate < 30, MEDIUM Delegation iff delegate
\* activity < 20
C4_RiskIffThreshold ==
    Returned =>
        \A k \in 1..Len(RuleOrder) :
            HasRisk(risks, RuleType[k], RuleOrder[k]) <=> RuleHolds(k, metrics)

C4_Witness ==
    /\ pc = "done"
    /\ metrics.avgVoterTurnout = 9999
    /\ HasRisk(risks, "HIGH", "Participation")
    /\ ~HasCategory(risks, "Centralization")

\* C5: the risk list holds at most one risk per rule (at most 5 risks, at
\* most 3 of them HIGH, no category twice) in rule-declaration order
C5_RiskListShape ==
    Returned =>
        /\ Len(risks) <= 5
        /\ CountType(risks, "HIGH") <= 3
        /\ \A i \in 1..Len(risks) :
               \E k \in 1..Len(RuleOrder) : risks[i].category = RuleOrder[k]
        /\ \A i, j \in 1..Len(risks) :
               i < j => RuleIndex(risks[i].category) < RuleIndex(risks[j].category)

C5_Witness ==
    /\ pc = "done"
    /\ Len(risks) = 5
    /\ risks[3].type = "MEDIUM"
    /\ risks[4].type = "HIGH"

\* the rules whose condition differs between two metrics records
Toggled(m1, m2) == {k \in 1..Len(RuleOrder) : RuleHolds(k, m1) # RuleHolds(k, m2)}

Without(list, c) == SelectSeq(list, LAMBDA r : r.category # c)

\* C6: when a record differs from the analysed one in a single field and
\* exactly one rule's condition changes, the two risk lists differ in that
\* rule's entry only
C6_OneRuleOneEntry ==
    Returned =>
        \A f \in NumericFields : \A v \in FieldValues(f) :
            LET m2 == [metrics EXCEPT ![f] = v]
            IN  Cardinality(Toggled(metrics, m2)) = 1 =>
                    LET c     == RuleOrder[CHOOSE k \in Toggled(metrics, m2) : TRUE]
                        other == identifyRisks(m2, calculateCategoryScores(m2))
                    IN  /\ Without(other, c) = Without(risks, c)
                        /\ HasCategory(other, c) # HasCategory(risks, c)

C6_Witness ==
    /\ pc = "done"
    /\ Len(risks) = 5
    /\ Cardinality(Toggled(metrics, [metrics EXCEPT !.totalProposals = 5 * Scale])) = 1

RecOrder ==
    <<VoterIncentiveRec, DiversificationRec, DelegateRecognitionRec,
      HighPriorityRec, ConsensusRec>>

RecIndex(r) == CHOOSE k \in 1..Len(RecOrder) : RecOrder[k] = r

\* the condition of recommendation rule k
RecHolds(k, m, list) ==
    CASE k = 1 -> m.avgVoterTurnout < 20 * Scale
      [] k = 2 -> m.tokenConcentration > 50 * Scale
      [] k = 3 -> m.delegateActivity < 30 * Scale
      [] k = 4 -> \E i \in 1..Len(list) : list[i].type = "HIGH"
      [] k = 5 -> m.proposalSuccessRate < 40 * Scale

\* C7: the recommendation list holds, in rule order, exactly the
\* recommendations whose condition holds (turnout < 20, concentration > 50,
\* delegate activity < 30, some HIGH risk, success rate < 40), and is the
\* empty list when none does
C7_RecommendationsIffCondition ==
    Returned =>
        /\ \A k \in 1..Len(RecOrder) :
               (\E i \in 1..Len(recommendations) : recommendations[i] = RecOrder[k])
                   <=> RecHolds(k, metrics, risks)
        /\ \A i \in 1..Len(recommendations) :
               \E k \in 1..Len(RecOrder) : recommendations[i] = RecOrder[k]
        /\ \A i, j \in 1..Len(recommendations) :
               i < j => RecIndex(recommendations[i]) < RecIndex(recommendations[j])
        /\ (\A k \in 1..Len(RecOrder) : ~RecHolds(k, metrics, risks))
               => recommendations = <<>>

C7_Witness ==
    /\ pc = "done"
    /\ risks # <<>>
    /\ \A i \in 1..Len(risks) : risks[i].type = "MEDIUM"
    /\ recommendations = <<>>

\* C8: the risk level is CRITICAL with more than 2 HIGH risks, else HIGH
\* with at least one, else MEDIUM with more than 3 risks in all, else LOW
C8_RiskLevelByPriority ==
    pc = "done" =>
        LET high == Len(SelectSeq(risks, LAMBDA r : r.type = "HIGH"))
        IN  riskLevel = CASE high > 2 -> "CRITICAL"
                          [] high \in 1..2 -> "HIGH"
                          [] high = 0 /\ Len(risks) > 3 -> "MEDIUM"
                          [] OTHER -> "LOW"

C8_Witness ==
    /\ pc = "done"
    /\ Len(risks) = 4
    /\ Len(SelectSeq(risks, LAMBDA r : r.type = "HIGH")) = 1
    /\ riskLevel = "HIGH"

\* C9: the signal is STRONG_BUY iff score >= 80, BUY iff 60 <= score < 80,
\* HOLD iff 40 <= score < 60, AVOID iff score < 40
C9_SignalTiers ==
    pc = "done" =>
        /\ signal \in {"STRONG_BUY", "BUY", "HOLD", "AVOID"}
        /\ signal = "STRONG_BUY" <=> overallScore >= 80
        /\ signal = "BUY" <=> (overallScore >= 60 /\ overallScore < 80)
        /\ signal = "HOLD" <=> (overallScore >= 40 /\ overallScore < 60)
        /\ signal = "AVOID" <=> overallScore < 40

C9_Witness ==
    /\ pc = "done"
    /\ overallScore = 60
    /\ signal = "BUY"

\* C10: two calls on the same metrics return the same scores, overall
\* score, risks and recommendations, whatever calls came before or between
\* them, and a call leaves its metrics as they were
C10_SameMetricsSameResults ==
    /\ [](\A i, j \in 1..Len(history) :
              history[i].metrics = history[j].metrics => history[i] = history[j])
    /\ [][(pc = "input" /\ pc' = "done") => metrics' = metrics]_vars

C10_Witness ==
    /\ Len(history) = 3
    /\ history[1].metrics = history[3].metrics
    /\ history[2].metrics # history[1].metrics
    /\ history[1].risks # <<>>
    /\ history[1] = history[3]

\* the metrics of another request that differs in field f only
WithField(m, f, v) == [m EXCEPT ![f] = v]

\* C11: with every other metric fixed, a higher avgVoterTurnout never gives
\* a lower participation score, over the whole range of the field, negative
\* values and values beyond 50 included
C11_ParticipationRisesWithTurnout ==
    Returned =>
        \A v \in FieldValues("avgVoterTurnout") :
            LET other == calculateParticipationScore(WithField(metrics, "avgVoterTurnout", v))
            IN  /\ (v >= metrics.avgVoterTurnout => other >= categoryScores.participation)
                /\ (v <= metrics.avgVoterTurnout => other <= categoryScores.participation)

C11_Witness ==
    /\ pc = "done"
    /\ metrics.avgVoterTurnout < 0
    /\ categoryScores.participation
         < calculateParticipationScore(WithField(metrics, "avgVoterTurnout", 50 * Scale))
    /\ calculateParticipationScore(WithField(metrics, "avgVoterTurnout", 50 * Scale))
         = calculateParticipationScore(WithField(metrics, "avgVoterTurnout", 150 * Scale))

\* C12: with every other metric fixed, a higher tokenConcentration never
\* gives a higher decentralization score
C12_DecentralizationFallsWithConcentration ==
    Returned =>
        \A v \in FieldValues("tokenConcentration") :
            LET other == calculateDecentralizationScore(WithField(metrics, "tokenConcentration", v))
            IN  /\ (v >= metrics.tokenConcentration => other <= categoryScores.decentralization)
                /\ (v <= metrics.tokenConcentration => other >= categoryScores.decentralization)

C12_Witness ==
    /\ pc = "done"
    /\ metrics.tokenConcentration = 50001
    /\ categoryScores.decentralization
         > calculateDecentralizationScore(WithField(metrics, "tokenConcentration", 150 * Scale))
    /\ categoryScores.decentralization
         < calculateDecentralizationScore(WithField(metrics, "tokenConcentration", -20 * Scale))

\* clamp(x) = min(100, max(0, x))
Clamp(x) == MathMin(DFromInt(100), MathMax(DFromInt(0), x))

\* round(a + b + c), the terms added from left to right
RoundSum3(a, b, c) == MathRound(DAdd(DAdd(a, b), c))

\* C13: for every metrics record the participation score is
\* round(0.4*clamp(avgVoterTurnout*2) + 0.3*clamp(delegateActivity)
\* + 0.3*clamp(communityEngagement)), every term bounded below by 0 and
\* above by 100, negative inputs included
C13_ParticipationFormula ==
    Returned =>
        categoryScores.participation =
            RoundSum3(DMul(Num(400), Clamp(DMul(Num(metrics.avgVoterTurnout), DFromInt(2)))),
                      DMul(Num(300), Clamp(Num(metrics.delegateActivity))),
                      DMul(Num(300), Clamp(Num(metrics.communityEngagement))))

\* C14: for every metrics record the decentralization score is
\* round(0.7*max(0, 100 - tokenConcentration) + 0.3*clamp(delegateActivity));
\* a concentration of 100 or more contributes 0, and a higher concentration
\* never gives a higher score
C14_DecentralizationFormula ==
    Returned =>
        LET concentrationTerm ==
                MathMax(DFromInt(0), DSub(DFromInt(100), Num(metrics.tokenConcentration)))
        IN  /\ categoryScores.decentralization =
                   MathRound(DAdd(DMul(Num(700), concentrationTerm),
                                  DMul(Num(300), Clamp(Num(metrics.delegateActivity)))))
            /\ (metrics.tokenConcentration >= 100 * Scale => concentrationTerm = DFromInt(0))
            /\ \A v \in FieldValues("tokenConcentration") :
                   v >= metrics.tokenConcentration =>
                       calculateDecentralizationScore(WithField(metrics, "tokenConcentration", v))
                           <= categoryScores.decentralization

\* C15: for every metrics record the activity score is
\* round(0.4*clamp((totalProposals/12)*20) + 0.3*clamp(activeProposals*25)
\* + 0.3*proposalSuccessRate); the frequency term is 0 at no proposal and 100
\* from 60 proposals on, the active-proposals term is 100 from 4 on
C15_ActivityFormula ==
    Returned =>
        LET frequencyTerm == Clamp(DMul(DDivInt(Num(metrics.totalProposals), 12), DFromInt(20)))
            activeTerm    == Clamp(DMul(Num(metrics.activeProposals), DFromInt(25)))
        IN  /\ categoryScores.activity =
                   RoundSum3(DMul(Num(400), frequencyTerm),
                             DMul(Num(300), activeTerm),
                             DMul(Num(300), Num(metrics.proposalSuccessRate)))
            /\ (metrics.totalProposals = 0 => frequencyTerm = DFromInt(0))
            /\ (metrics.totalProposals >= 60 * Scale => frequencyTerm = DFromInt(100))
            /\ (metrics.activeProposals >= 4 * Scale => activeTerm = DFromInt(100))

\* C16: for every metrics record the stability score is
\* round(0.4*proposalSuccessRate + 0.3*treasuryHealth
\* + 0.3*clamp(avgProposalDuration*10)); from a duration of 10 days on a
\* longer duration leaves the score unchanged
C16_StabilityFormula ==
    Returned =>
        /\ categoryScores.stability =
               RoundSum3(DMul(Num(400), Num(metrics.proposalSuccessRate)),
                         DMul(Num(300), Num(metrics.treasuryHealth)),
                         DMul(Num(300), Clamp(DMul(Num(metrics.avgProposalDuration),
                                                   DFromInt(10)))))
        /\ \A v \in FieldValues("avgProposalDuration") :
               (metrics.avgProposalDuration >= 10 * Scale /\ v >= metrics.avgProposalDuration) =>
                   calculateStabilityScore(WithField(metrics, "avgProposalDuration", v))
                       = categoryScores.stability

\* C17: the Scenario B metrics give exactly 5 risks, one of every rule,
\* exactly 3 of them HIGH, risk level CRITICAL, an overall score below 40
\* and the investment signal AVOID
C17_ScenarioB ==
    (metrics = MetricsB /\ Returned) =>
        /\ Len(risks) = 5
        /\ \A k \in 1..Len(RuleOrder) : HasCategory(risks, RuleOrder[k])
        /\ CountType(risks, "HIGH") = 3
        /\ overallScore < 40
        /\ (pc = "reported" => riskLevel = "CRITICAL" /\ signal = "AVOID")

C17_Witness ==
    /\ pc = "reported"
    /\ metrics = MetricsB
    /\ riskLevel = "CRITICAL"
    /\ overallScore = 16

\* C18: the Scenario A metrics give no HIGH risk and an overall score of at
\* least 60, the investment signal being BUY or STRONG_BUY
C18_ScenarioA ==
    (metrics = MetricsA /\ Returned) =>
        /\ CountType(risks, "HIGH") = 0
        /\ overallScore >= 60
        /\ (pc = "reported" => signal \in {"BUY", "STRONG_BUY"})

C18_Witness ==
    /\ pc = "reported"
    /\ metrics = MetricsA
    /\ risks = <<>>
    /\ overallScore = 67
    /\ signal = "BUY"

\* the index in the list of its j-th risk of type t
NthOfType(list, t, j) ==
    CHOOSE i \in 1..Len(list) :
        /\ list[i].type = t
        /\ Cardinality({k \in 1..i : list[k].type = t}) = j

\* the section holds one line for every risk of type t, in list order, or
\* the fallback text when there is none
SectionLists(section, list, t) ==
    IF CountType(list, t) = 0
    THEN section = <<NoneIdentified>>
    ELSE /\ Len(section) = CountType(list, t)
         /\ \A j \in 1..Len(section) :
                LET r == list[NthOfType(list, t, j)]
                IN  section[j] = <<"- **", r.category, "**: ", r.description>>

\* C19: in the detailed report the High Priority section lists exactly the
\* HIGH risks and the Medium Priority section exactly the MEDIUM risks, in
\* the order of the risk list; a section without a risk reads
\* 'None identified'; the reported total is the length of the risk list
C19_ReportSections ==
    pc = "reported" =>
        /\ SectionLists(report.highPriority, risks, "HIGH")
        /\ SectionLists(report.mediumPriority, risks, "MEDIUM")
        /\ report.totalRisks = Len(risks)

C19_Witness ==
    /\ pc = "reported"
    /\ CountType(risks, "HIGH") = 2
    /\ Len(report.highPriority) = 2
    /\ report.mediumPriority = <<NoneIdentified>>
    /\ report.totalRisks = 2

\* the text of the response, when the handler returned one text item
ResponseText ==
    IF /\ response.kind = "return"
       /\ Len(response.content) = 1
       /\ response.content[1].type = "text"
    THEN response.content[1].text
    ELSE <<>>

\* an error text: it opens with "Error: " and closes with DAO identifiers
\* to try
IsErrorText(text) ==
    /\ Len(text) >= 3
    /\ text[1] = "Error: "
    /\ text[Len(text)]
         = ". Please try with a different DAO identifier like: uniswap, compound, aave, makerdao."

\* the text says that this DAO was not found
NamesNotFound(text, id) ==
    \E i \in 1..(Len(text) - 2) :
        /\ text[i] = "DAO '"
        /\ text[i + 1] = id
        /\ text[i + 2]
             = "' not found. Try: uniswap, compound, aave, makerdao, curve, yearn, sushi, arbitrum, optimism, ens, balancer"

SingleDAOTools == {"analyze_dao_health", "identify_risks", "get_detailed_report"}

\* C21: when the upstream API fails for a DAO whose analysis was cached
\* earlier and has not expired, a request of any tool that analyses one DAO
\* is answered from the cached data and not with an error
C21_CachedDataOnApiFailure ==
    (/\ request.name \in SingleDAOTools
     /\ lookups \in {<<>>, <<"fetch failed">>}
     /\ serverCache[request.arguments[1]] # <<>>) =>
        /\ response.kind = "return"
        /\ ~IsErrorText(ResponseText)
        /\ (request.name = "analyze_dao_health" =>
               ResponseText = <<"JSON">> \o serverCache[request.arguments[1]])

KeyOf(call) == cacheKey(call.platform, call.daoIdentifier)

\* the complete results of successful analyses of an identifier
AnalysesOf(daoIdentifier) == {HealthTable[m] : m \in ProviderData(daoIdentifier)}

\* caller c leaves the cache check of analyzeDAO in this step
Starts(c) == calls[c].state = "idle" /\ calls'[c].state # "idle"

\* C22: analyzeDAO consults the cache before the metrics provider: an
\* unexpired entry under the key of (platform, identifier) is returned
\* without fetch or scoring; only on a miss are metrics fetched; a
\* successful analysis is stored under that key and a later call within the
\* time to live gets the stored result; results for different identifiers
\* or platforms never share a cache entry
C22_CacheBeforeProvider ==
    /\ [][\A c \in Callers :
             Starts(c) =>
                 IF analyzerCache[KeyOf(calls'[c])] # <<>>
                 THEN /\ calls'[c].state = "returned"
                      /\ calls'[c].result = analyzerCache[KeyOf(calls'[c])]
                      /\ ~calls'[c].fetched
                      /\ analyzerCache' = analyzerCache
                 ELSE calls'[c].state = "fetching"]_vars
    /\ [][\A c \in Callers :
             (calls[c].state = "fetching" /\ calls'[c].state = "returned") =>
                 /\ calls'[c].fetched
                 /\ analyzerCache'[KeyOf(calls[c])] = calls'[c].result]_vars
    /\ [](\A c \in Callers :
             calls[c].state = "returned" =>
                 /\ calls[c].platform = <<"tally">>
                 /\ calls[c].result[1].dao = DaoName(calls[c].daoIdentifier))

\* C23: when analyzeDAO fails, the provider throwing or the platform not
\* being 'tally', the error reaches the caller and the cache is left as it
\* was: no entry is created or overwritten, and no failed analysis is ever
\* kept in the cache
C23_FailureLeavesCache ==
    /\ [][\A c \in Callers :
             (calls[c].state = "fetching" /\ calls'[c].state = "threw") =>
                 /\ analyzerCache' = analyzerCache
                 /\ calls'[c].error # <<>>
                 /\ calls'[c].result = <<>>
                 /\ (calls[c].platform # <<"tally">> =>
                        calls'[c].error
                            = <<"Platform">> \o calls[c].platform \o <<"not supported">>)]_vars
    /\ [](\A k \in CacheKeys :
             analyzerCache[k] # <<>> =>
                 \E i \in DaoIdentifiers : analyzerCache[k][1] \in AnalysesOf(i))

C23_Witness ==
    \E c \in Callers :
        /\ calls[c].state = "threw"
        /\ calls[c].platform = <<"tally">>
        /\ analyzerCache[KeyOf(calls[c])] # <<>>

\* C24: concurrent analyzeDAO calls are independent: each returns a health
\* computed from the metrics fetched for its own identifier, and every
\* cache entry under the key of (platform, identifier) holds a complete
\* result of a successful analysis of that identifier
C24_ConcurrentCallsIndependent ==
    /\ \A c \in Callers :
           calls[c].state = "returned" =>
               calls[c].result[1] \in AnalysesOf(calls[c].daoIdentifier)
    /\ \A p \in Platforms : \A i \in DaoIdentifiers :
           analyzerCache[cacheKey(p, i)] # <<>> =>
               analyzerCache[cacheKey(p, i)][1] \in AnalysesOf(i)

\* r holds the elements of a, each as often as a does
IsPermutation(r, a) ==
    /\ Len(r) = Len(a)
    /\ \E f \in [1..Len(a) -> 1..Len(a)] :
           /\ \A i, j \in 1..Len(a) : f[i] = f[j] => i = j
           /\ \A i \in 1..Len(a) : r[f[i]] = a[i]

\* C25: when every analysis succeeds, compareDAOs returns one health per
\* input identifier, a permutation of the individual analyses, in order
\* of non-increasing overallScore
C25_CompareSortedPermutation ==
    [][(compareCall.state = "running" /\ compareCall'.state = "returned") =>
           LET analyses == [c \in 1..compareCall.size |-> calls[c].result[1]]
               sorted   == compareCall'.result
           IN  /\ IsPermutation(sorted, analyses)
               /\ \A j \in 1..(Len(sorted) - 1) :
                      sorted[j].overallScore >= sorted[j + 1].overallScore]_vars

C25_Witness ==
    /\ compareCall.state = "returned"
    /\ Len(compareCall.result) = 2
    /\ calls[1].state = "returned"
    /\ calls[2].state = "returned"
    /\ compareCall.result = <<calls[2].result[1], calls[1].result[1]>>
    /\ compareCall.result[1].overallScore > compareCall.result[2].overallScore

\* records on either side of every threshold of the five risk rules
RuleCorners ==
    {Metrics(tp, 0, vt, tc, da, sr, 0, 0, 0) :
        tp \in {4000, 5000}, vt \in {9999, 10000}, tc \in {70000, 70001},
        da \in {19999, 20000}, sr \in {29999, 30000}}

\* C26: for every risk list identifyRisks produces, getRiskLevel gives
\* CRITICAL, HIGH or LOW and never MEDIUM: a list without a HIGH risk holds
\* at most the two MEDIUM risks Activity and Delegation
C26_NeverMediumLevel ==
    /\ Returned =>
           (CountType(risks, "HIGH") = 0 =>
               /\ Len(risks) <= 2
               /\ \A i \in 1..Len(risks) : risks[i] \in {ActivityRisk, DelegationRisk})
    /\ Returned => getRiskLevel(risks) \in {"CRITICAL", "HIGH", "LOW"}
    /\ pc = "reported" => riskLevel \in {"CRITICAL", "HIGH", "LOW"}
    /\ Returned =>
           \A m \in RuleCorners :
               getRiskLevel(identifyRisks(m, NoScores)) \in {"CRITICAL", "HIGH", "LOW"}

C26_Witness ==
    /\ pc = "reported"
    /\ Len(risks) > 3
    /\ CountType(risks, "HIGH") = 2
    /\ riskLevel = "HIGH"

\* r is one of the recommendations
Recommends(recs, r) == \E i \in 1..Len(recs) : recs[i] = r

\* C27: a Participation risk comes with the voter-incentive recommendation,
\* a Centralization risk with the diversification one, a Delegation risk
\* with the delegate-recognition one, a Stability risk with the consensus
\* one and any HIGH risk with the high-priority one; so there is no
\* recommendation only if there is no risk or the Activity risk alone
C27_RiskImpliesRecommendation ==
    Returned =>
        /\ HasCategory(risks, "Participation") =>
               Recommends(recommendations, VoterIncentiveRec)
        /\ HasCategory(risks, "Centralization") =>
               Recommends(recommendations, DiversificationRec)
        /\ HasCategory(risks, "Delegation") =>
               Recommends(recommendations, DelegateRecognitionRec)
        /\ HasCategory(risks, "Stability") =>
               Recommends(recommendations, ConsensusRec)
        /\ CountType(risks, "HIGH") > 0 =>
               Recommends(recommendations, HighPriorityRec)
        /\ recommendations = <<>> => risks \in {<<>>, <<ActivityRisk>>}
        /\ \A m \in RuleCorners :
               LET rs == identifyRisks(m, NoScores)
                   rc == generateRecommendations(m, rs)
               IN  /\ HasCategory(rs, "Participation") => Recommends(rc, VoterIncentiveRec)
                   /\ HasCategory(rs, "Centralization") => Recommends(rc, DiversificationRec)
                   /\ HasCategory(rs, "Delegation") => Recommends(rc, DelegateRecognitionRec)
                   /\ HasCategory(rs, "Stability") => Recommends(rc, ConsensusRec)
                   /\ CountType(rs, "HIGH") > 0 => Recommends(rc, HighPriorityRec)

C27_Witness ==
    /\ pc = "done"
    /\ HasCategory(risks, "Participation")
    /\ ~HasCategory(risks, "Delegation")
    /\ Recommends(recommendations, VoterIncentiveRec)
    /\ Recommends(recommendations, HighPriorityRec)
    /\ metrics.avgVoterTurnout > 5 * Scale

=============================================================================
